---- MODULE Spec2Model ----
(***************************************************************************)
(* A model of gearman/worker.py (GearmanWorker): the ability table, the    *)
(* process-wide job lock, job dispatch and the job reporting calls, the    *)
(* work loop and the connection error hook.                                *)
(*                                                                         *)
(* GearmanConnectionManager (gearman/_connection_manager.py) and           *)
(* GearmanWorkerCommandHandler (gearman/worker_handler.py) are imported by *)
(* worker.py; the parts of them the worker relies on (the two              *)
(* connection/handler maps, attempt_connect, the base handle_error, the    *)
(* handler's protocol states) are modelled after sections 4.3 and 4.4 of   *)
(* the specification.                                                      *)
(*                                                                         *)
(* A task callback is user code of arbitrary duration that may call back   *)
(* into the worker, so a job's execution is two steps: the dispatch, up to *)
(* the callback's start, and the callback's end.  The worker is one thread *)
(* (section 5): a job dispatched while a callback is in progress is        *)
(* dispatched by a poll made inside that callback, and its own callback    *)
(* ends first.                                                             *)
(***************************************************************************)
EXTENDS Integers, Sequences, FiniteSets, TLC

\* ------------------------------------------------------------------ bounds
NumConns == 2           \* addresses in connection_list
MaxRunning == 2         \* callbacks in progress at one time (nested dispatch)
MaxSent == 3            \* commands enqueued in all, where the outbound queues are followed

\* ------------------------------------------------------------------ values
Conns == 1..NumConns
NoConn == 0
\* Handler objects.  The live handler of an address is named by the
\* address.  A handler the manager has discarded is in neither map and can
\* never be put back, so every such object behaves alike wherever the
\* worker uses it: they share the name Discarded.
Handlers == 1..NumConns
Discarded == NumConns + 1
AllHandlers == Handlers \cup {Discarded}
NoHandler == 0
\* Job handles the servers assign
Handles == {"H:1"}
NoHandle == "<none>"

Tasks == {"echo", "fail"}
\* tests.py: echo returns job.arg, fail raises FailedError
Callbacks == {"echo", "fail"}
Unregistered == "<unregistered>"
Data == {"tea"}
NoData == "<none>"

\* A Job (worker.py 82-84); its unique id is carried along by the worker
\* and read by nothing modelled here
Jobs == [conn : Conns, handle : Handles, task : Tasks, data : Data]
\* No job: what a handler with no assignment waiting for the lock remembers
NoJob == [conn |-> NoConn, handle |-> NoHandle, task |-> "<none>", data |-> NoData]

\* Handler protocol states (IDLE is left in the step that enters it).
AWAITING_ASSIGNMENT == "AWAITING_ASSIGNMENT"
SLEEPING == "SLEEPING"
EXECUTING == "EXECUTING"
NO_HANDLER == "NO_HANDLER"

VARIABLES
    connected,                         \* Connection liveness flag, per address
    connection_to_handler_map,         \* address -> its live handler or NoHandler
    handler_to_connection_map,         \* handler -> its address or NoConn
    handler_state,                     \* handler -> protocol state
    handler_abilities,                 \* handler -> ability set last given to it
    pending,                           \* handler -> the assigned job it could not start yet, or NoJob
    worker_abilities,                  \* task -> callback or Unregistered
    handler_initial_state,             \* [abilities]
    command_handler_holding_job_lock,  \* the Job Lock owner or NoHandler
    running,                           \* callbacks in progress: {[handler, job, callback, depth]},
                                       \* depth 1 dispatched by work()'s poll, depth n+1 by a
                                       \* poll made inside the callback of depth n
    pc,                                \* where work() is
    last,                              \* the most recent call: what it was, returned, raised and sent
    outbox,                            \* address -> commands enqueued and not yet written
    wire                               \* address -> commands written to the transport so far

vars == <<connected, connection_to_handler_map, handler_to_connection_map,
          handler_state, handler_abilities, pending,
          worker_abilities, handler_initial_state,
          command_handler_holding_job_lock, running, pc, last, outbox, wire>>

connVars == <<connected, connection_to_handler_map, handler_to_connection_map>>
handlerVars == <<handler_state, handler_abilities, pending>>
abilityVars == <<worker_abilities, handler_initial_state>>
\* The outbound queues are followed in SpecFlush only.  Spec records what a
\* call enqueues in last.sent and leaves the queues out.
queueVars == <<outbox, wire>>

\* ------------------------------------------------------------- observation
Call(op, raised, ret, sent) ==
    [op |-> op, raised |-> raised, ret |-> ret, sent |-> sent]

Command(cmd, conn, handle, data) ==
    [cmd |-> cmd, conn |-> conn, handle |-> handle, data |-> data]

NoRaise == "none"
KeyError == "KeyError"

\* ------------------------------------------------------ worker.py, pure parts
Keys(abilities) == {t \in Tasks : abilities[t] # Unregistered}

LiveHandlers == {h \in Handlers : handler_to_connection_map[h] # NoConn}

\* _update_initial_state that stores the table's values, not its keys
update_initial_state_values(abilities) ==
    [abilities |-> {abilities[t] : t \in Keys(abilities)}]

\* worker.py 35-36: the ability list replayed to a handler at connect time
\* (the client identifier, worker.py 37 and 59-66, is left out)
update_initial_state(abilities) ==
    [abilities |-> Keys(abilities)]

\* set_job_lock without the failed_lock test: an acquire succeeds whoever
\* holds the lock
set_job_lock_no_failed_lock(holder, command_handler, lock) ==
    IF handler_to_connection_map[command_handler] = NoConn
    THEN [ret |-> FALSE, holder |-> holder]
    ELSE LET failed_unlock == ~lock /\ holder # command_handler
         IN IF failed_unlock
            THEN [ret |-> FALSE, holder |-> holder]
            ELSE IF lock
                 THEN [ret |-> TRUE, holder |-> command_handler]
                 ELSE [ret |-> TRUE, holder |-> NoHandler]

\* set_job_lock without the failed_unlock test: any registered handler's
\* release clears the lock
set_job_lock_no_failed_unlock(holder, command_handler, lock) ==
    IF handler_to_connection_map[command_handler] = NoConn
    THEN [ret |-> FALSE, holder |-> holder]
    ELSE LET failed_lock == lock /\ holder # NoHandler
         IN IF failed_lock
            THEN [ret |-> FALSE, holder |-> holder]
            ELSE IF lock
                 THEN [ret |-> TRUE, holder |-> command_handler]
                 ELSE [ret |-> TRUE, holder |-> NoHandler]

\* set_job_lock whose release answers True and leaves the owner in place
set_job_lock_release_keeps_owner(holder, command_handler, lock) ==
    IF handler_to_connection_map[command_handler] = NoConn
    THEN [ret |-> FALSE, holder |-> holder]
    ELSE LET failed_lock == lock /\ holder # NoHandler
             failed_unlock == ~lock /\ holder # command_handler
         IN IF failed_lock \/ failed_unlock
            THEN [ret |-> FALSE, holder |-> holder]
            ELSE IF lock
                 THEN [ret |-> TRUE, holder |-> command_handler]
                 ELSE [ret |-> TRUE, holder |-> holder]

\* set_job_lock that lets the owner acquire the lock again
set_job_lock_reentrant(holder, command_handler, lock) ==
    IF handler_to_connection_map[command_handler] = NoConn
    THEN [ret |-> FALSE, holder |-> holder]
    ELSE LET failed_lock == lock /\ holder \notin {NoHandler, command_handler}
             failed_unlock == ~lock /\ holder # command_handler
         IN IF failed_lock \/ failed_unlock
            THEN [ret |-> FALSE, holder |-> holder]
            ELSE IF lock
                 THEN [ret |-> TRUE, holder |-> command_handler]
                 ELSE [ret |-> TRUE, holder |-> NoHandler]

\* set_job_lock without the test of lines 104-105: a handler that is not
\* registered is served like any other
set_job_lock_no_registration_test(holder, command_handler, lock) ==
    LET failed_lock == lock /\ holder # NoHandler
        failed_unlock == ~lock /\ holder # command_handler
    IN IF failed_lock \/ failed_unlock
       THEN [ret |-> FALSE, holder |-> holder]
       ELSE IF lock
            THEN [ret |-> TRUE, holder |-> command_handler]
            ELSE [ret |-> TRUE, holder |-> NoHandler]

\* worker.py 103-120: the value returned and the lock owner afterwards,
\* holder being command_handler_holding_job_lock when the call is made
set_job_lock(holder, command_handler, lock) ==
    IF handler_to_connection_map[command_handler] = NoConn
    THEN [ret |-> FALSE, holder |-> holder]
    ELSE LET failed_lock == lock /\ holder # NoHandler
             failed_unlock == ~lock /\ holder # command_handler
         IN IF failed_lock \/ failed_unlock
            THEN [ret |-> FALSE, holder |-> holder]
            ELSE IF lock
                 THEN [ret |-> TRUE, holder |-> command_handler]
                 ELSE [ret |-> TRUE, holder |-> NoHandler]

\* worker.py 122-123
check_job_lock(command_handler) ==
    command_handler_holding_job_lock = command_handler

\* worker.py 82-84
create_job(command_handler, job_handle, task, data) ==
    [conn |-> handler_to_connection_map[command_handler], handle |-> job_handle,
     task |-> task, data |-> data]

\* worker.py 126-127: NoHandler stands for the KeyError of the dict lookup
get_handler_for_job(current_job) ==
    connection_to_handler_map[current_job.conn]

\* One reporting call: the commands it makes the job's handler enqueue.
Report(current_job, cmds) ==
    IF get_handler_for_job(current_job) = NoHandler
    THEN [raised |-> KeyError, sent |-> << >>]
    ELSE [raised |-> NoRaise, sent |-> cmds]

\* worker.py 129-131
send_job_status(current_job) ==
    Report(current_job, <<Command("WORK_STATUS", current_job.conn, current_job.handle, NoData)>>)

\* worker.py 133-135
send_job_complete(current_job, data) ==
    Report(current_job, <<Command("WORK_COMPLETE", current_job.conn, current_job.handle, data)>>)

\* worker.py 137-140
send_job_failure(current_job) ==
    Report(current_job, <<Command("WORK_FAIL", current_job.conn, current_job.handle, NoData)>>)

\* send_job_exception that reports the failure first
send_job_exception_failure_first(current_job, data) ==
    Report(current_job, <<Command("WORK_FAIL", current_job.conn, current_job.handle, NoData),
                          Command("WORK_EXCEPTION", current_job.conn, current_job.handle, data)>>)

\* worker.py 142-149
send_job_exception(current_job, data) ==
    Report(current_job, <<Command("WORK_EXCEPTION", current_job.conn, current_job.handle, data),
                          Command("WORK_FAIL", current_job.conn, current_job.handle, NoData)>>)

\* worker.py 151-153
send_job_data(current_job, data) ==
    Report(current_job, <<Command("WORK_DATA", current_job.conn, current_job.handle, data)>>)

\* worker.py 155-157
send_job_warning(current_job, data) ==
    Report(current_job, <<Command("WORK_WARNING", current_job.conn, current_job.handle, data)>>)

\* tests.py 12-16: what a registered callback does with a job
Invoke(function_callback, current_job) ==
    IF function_callback = "echo"
    THEN [kind |-> "return", value |-> current_job.data]
    ELSE [kind |-> "raise", value |-> NoData]

\* on_job_exception that answers False without reporting the failure
on_job_exception_silent(current_job) ==
    [raised |-> NoRaise, sent |-> << >>, ret |-> "False"]

\* worker.py 95-97
on_job_exception(current_job) ==
    LET r == send_job_failure(current_job)
    IN [raised |-> r.raised, sent |-> r.sent,
        ret |-> IF r.raised = NoRaise THEN "False" ELSE "None"]

\* on_job_complete that answers True without reporting the completion
on_job_complete_silent(current_job, job_result) ==
    [raised |-> NoRaise, sent |-> << >>, ret |-> "True"]

\* worker.py 99-101
on_job_complete(current_job, job_result) ==
    LET r == send_job_complete(current_job, job_result)
    IN [raised |-> r.raised, sent |-> r.sent,
        ret |-> IF r.raised = NoRaise THEN "True" ELSE "None"]

\* on_job_execute that does nothing for a task it has no callback for
on_job_execute_missing_is_noop(current_job, function_callback) ==
    IF function_callback = Unregistered
    THEN [raised |-> NoRaise, sent |-> << >>, ret |-> "None"]
    ELSE LET out == Invoke(function_callback, current_job)
         IN IF out.kind = "raise"
            THEN on_job_exception(current_job)
            ELSE on_job_complete(current_job, out.value)

\* worker.py 86-93, from the callback's outcome on.  function_callback is
\* what worker_abilities held for the job's task when dispatch looked it up;
\* a missing key is a KeyError inside the try, as is a raising callback.
on_job_execute(current_job, function_callback) ==
    IF function_callback = Unregistered
    THEN on_job_exception(current_job)
    ELSE LET out == Invoke(function_callback, current_job)
         IN IF out.kind = "raise"
            THEN on_job_exception(current_job)
            ELSE on_job_complete(current_job, out.value)

\* ------------------------------------------------------------------- Init
Init ==
    /\ connected = [c \in Conns |-> FALSE]
    /\ connection_to_handler_map = [c \in Conns |-> NoHandler]
    /\ handler_to_connection_map = [h \in AllHandlers |-> NoConn]
    /\ handler_state = [h \in Handlers |-> NO_HANDLER]
    /\ handler_abilities = [h \in Handlers |-> {}]
    /\ pending = [h \in Handlers |-> NoJob]
    /\ worker_abilities = [t \in Tasks |-> Unregistered]
    /\ handler_initial_state = update_initial_state([t \in Tasks |-> Unregistered])
    /\ command_handler_holding_job_lock = NoHandler
    /\ running = {}
    /\ pc = "not_started"
    /\ last = Call("init", NoRaise, "None", << >>)
    /\ outbox = [c \in Conns |-> << >>]
    /\ wire = [c \in Conns |-> << >>]

\* ------------------------------------------------- handler objects (4.3, 4.4)
\* The handler object a successful connect of address c constructs
NewHandler(c) == c

\* What refers to handler object h once the manager has discarded dead
AsDiscarded(h, dead) == IF h = dead /\ dead # NoHandler THEN Discarded ELSE h

\* A broadcast that passes over the handlers that are EXECUTING
BroadcastAbilities_skip_busy(abilities) ==
    [h \in Handlers |-> IF h \in LiveHandlers /\ handler_state[h] # EXECUTING
                        THEN abilities ELSE handler_abilities[h]]

\* worker.py 44-45, 54-55: set_abilities on every live handler
BroadcastAbilities(abilities) ==
    [h \in Handlers |-> IF h \in LiveHandlers THEN abilities ELSE handler_abilities[h]]

\* The handler's state once it has left a job: IDLE, then at once a
\* request for more work.  A discarded handler has no state to change.
RequestWork(h) ==
    [g \in Handlers |-> IF g = h /\ h \in LiveHandlers THEN AWAITING_ASSIGNMENT
                        ELSE handler_state[g]]

\* --------------------------------------------------------- registration API
\* register_task that keeps the callback a registered name already has
register_task_keep_first(task, callback_function) ==
    /\ worker_abilities' = IF worker_abilities[task] = Unregistered
                           THEN [worker_abilities EXCEPT ![task] = callback_function]
                           ELSE worker_abilities
    /\ handler_initial_state' = update_initial_state(worker_abilities')
    /\ handler_abilities' = BroadcastAbilities(handler_initial_state'.abilities)
    /\ last' = Call("register_task", NoRaise, task, << >>)
    /\ UNCHANGED <<queueVars, connVars, handler_state, pending, command_handler_holding_job_lock, running, pc>>

\* worker.py 39-47
register_task(task, callback_function) ==
    /\ worker_abilities' = [worker_abilities EXCEPT ![task] = callback_function]
    /\ handler_initial_state' = update_initial_state(worker_abilities')
    /\ handler_abilities' = BroadcastAbilities(handler_initial_state'.abilities)
    /\ last' = Call("register_task", NoRaise, task, << >>)
    /\ UNCHANGED <<queueVars, connVars, handler_state, pending, command_handler_holding_job_lock, running, pc>>

\* worker.py 49-57
unregister_task(task) ==
    /\ worker_abilities' = [worker_abilities EXCEPT ![task] = Unregistered]
    /\ handler_initial_state' = update_initial_state(worker_abilities')
    /\ handler_abilities' = BroadcastAbilities(handler_initial_state'.abilities)
    /\ last' = Call("unregister_task", NoRaise, task, << >>)
    /\ UNCHANGED <<queueVars, connVars, handler_state, pending, command_handler_holding_job_lock, running, pc>>

\* ---------------------------------------------------------------- work loop
\* worker.py 162: the list work() closes at its end; nothing is added to it
live_connections == {}

\* worker.py 159-168: work() is called
work ==
    /\ pc \in {"not_started", "returned"}
    /\ pc' = "get_connections"
    /\ last' = Call("work", NoRaise, "None", << >>)
    /\ UNCHANGED <<queueVars, connVars, handlerVars, abilityVars,
                   command_handler_holding_job_lock, running>>

\* worker.py 68-80, called at line 169.  Each address not connected is
\* attempted; the attempt succeeds for the addresses in S and fails for the
\* others, which stay disconnected.  The order of the list returned is not
\* observed by anything modelled here.
get_worker_connections ==
    /\ pc = "get_connections"
    /\ \E S \in SUBSET {c \in Conns : ~connected[c]} :
         /\ connected' = [c \in Conns |-> connected[c] \/ c \in S]
         /\ connection_to_handler_map' =
                [c \in Conns |-> IF c \in S THEN NewHandler(c)
                                 ELSE connection_to_handler_map[c]]
         /\ handler_to_connection_map' =
                [h \in AllHandlers |-> IF \E c \in S : NewHandler(c) = h
                                       THEN CHOOSE c \in S : NewHandler(c) = h
                                       ELSE handler_to_connection_map[h]]
         /\ handler_state' =
                [h \in Handlers |-> IF \E c \in S : NewHandler(c) = h
                                    THEN AWAITING_ASSIGNMENT ELSE handler_state[h]]
         /\ handler_abilities' =
                [h \in Handlers |-> IF \E c \in S : NewHandler(c) = h
                                    THEN handler_initial_state.abilities
                                    ELSE handler_abilities[h]]
    /\ pc' = "polling"
    /\ last' = Call("get_worker_connections", NoRaise, "None", << >>)
    /\ UNCHANGED <<queueVars, pending, abilityVars, command_handler_holding_job_lock, running>>

\* worker.py 176-177: the continuation hook of the base worker
after_poll(any_activity) == TRUE

\* worker.py 168-170: poll_connections_until_stopped returned True (the
\* poll timeout passed and the hook answered True); the loop goes round
poll_continue ==
    /\ pc = "polling"
    /\ running = {}
    /\ \E any_activity \in BOOLEAN : after_poll(any_activity)
    /\ pc' = "get_connections"
    /\ last' = Call("poll_connections_until_stopped", NoRaise, "True", << >>)
    /\ UNCHANGED <<queueVars, connVars, handlerVars, abilityVars,
                   command_handler_holding_job_lock, running>>

\* worker.py 168-174: poll_connections_until_stopped returned False (the
\* continuation predicate, an override of after_poll, answered False); the
\* loop ends, the connections in live_connections are closed, work() returns
poll_stopped ==
    /\ pc = "polling"
    /\ running = {}
    /\ connected' = [c \in Conns |-> IF c \in live_connections THEN FALSE ELSE connected[c]]
    /\ pc' = "returned"
    /\ last' = Call("work_returned", NoRaise, "None", << >>)
    /\ UNCHANGED <<queueVars, connection_to_handler_map, handler_to_connection_map, handlerVars,
                   abilityVars, command_handler_holding_job_lock, running>>

\* ------------------------------------------------------ handler events (4.4)
\* AWAITING_ASSIGNMENT, no-job-available: send sleep-request, SLEEPING
recv_no_job(h) ==
    /\ pc = "polling"
    /\ h \in LiveHandlers
    /\ handler_state[h] = AWAITING_ASSIGNMENT
    /\ pending[h] = NoJob
    /\ handler_state' = [handler_state EXCEPT ![h] = SLEEPING]
    /\ last' = Call("recv_no_job", NoRaise, "None",
                    <<Command("PRE_SLEEP", handler_to_connection_map[h], NoHandle, NoData)>>)
    /\ UNCHANGED <<queueVars, connVars, handler_abilities, pending, abilityVars,
                   command_handler_holding_job_lock, running, pc>>

\* SLEEPING, wake-notification: re-request work, AWAITING_ASSIGNMENT
recv_noop(h) ==
    /\ pc = "polling"
    /\ h \in LiveHandlers
    /\ handler_state[h] = SLEEPING
    /\ handler_state' = [handler_state EXCEPT ![h] = AWAITING_ASSIGNMENT]
    /\ last' = Call("recv_noop", NoRaise, "None",
                    <<Command("GRAB_JOB", handler_to_connection_map[h], NoHandle, NoData)>>)
    /\ UNCHANGED <<queueVars, connVars, handler_abilities, pending, abilityVars,
                   command_handler_holding_job_lock, running, pc>>

\* The handler h tries to start current_job: it tries to acquire the Job
\* Lock (set_job_lock, worker.py 103-120).  On contention the handler stays
\* as it is and keeps the job pending.  Otherwise on_job_execute (worker.py
\* 86-89) looks the task up: an unregistered task fails the job there and
\* then, a registered one starts its callback.
try_job(h, current_job) ==
    LET acquire == set_job_lock(command_handler_holding_job_lock, h, TRUE)
        function_callback == worker_abilities[current_job.task]
    IN IF ~acquire.ret
       THEN /\ pending' = [pending EXCEPT ![h] = current_job]
            /\ last' = Call("recv_job_assign_uniq", NoRaise,
                            "contended", << >>)
            /\ UNCHANGED <<handler_state, command_handler_holding_job_lock, running>>
       ELSE IF function_callback = Unregistered
       THEN LET done == on_job_execute(current_job, function_callback)
            IN /\ command_handler_holding_job_lock' =
                      set_job_lock(acquire.holder, h, FALSE).holder
               /\ handler_state' = RequestWork(h)
               /\ pending' = [pending EXCEPT ![h] = NoJob]
               /\ last' = Call("on_job_execute_no_callback", done.raised, done.ret,
                               done.sent \o <<Command("GRAB_JOB", current_job.conn, NoHandle, NoData)>>)
               /\ UNCHANGED running
       ELSE /\ command_handler_holding_job_lock' = acquire.holder
            /\ handler_state' = [handler_state EXCEPT ![h] = EXECUTING]
            /\ pending' = [pending EXCEPT ![h] = NoJob]
            /\ running' = running \cup {[handler |-> h, job |-> current_job,
                                         callback |-> function_callback,
                                         depth |-> Cardinality(running) + 1]}
            /\ last' = Call("recv_job_assign_uniq", NoRaise,
                            "executing", << >>)

\* AWAITING_ASSIGNMENT, job-assigned: the job is built (create_job,
\* worker.py 82-84) and the handler tries to start it
recv_job_assign_uniq(h, job_handle, task, data) ==
    /\ pc = "polling"
    /\ h \in LiveHandlers
    /\ handler_state[h] = AWAITING_ASSIGNMENT
    /\ pending[h] = NoJob
    /\ Cardinality(running) < MaxRunning
    /\ try_job(h, create_job(h, job_handle, task, data))
    /\ UNCHANGED <<queueVars, connVars, handler_abilities, abilityVars, pc>>

\* Contention is retried: a handler that keeps a job pending tries again
\* to start it
retry_job_assign(h) ==
    /\ pc = "polling"
    /\ h \in LiveHandlers
    /\ handler_state[h] = AWAITING_ASSIGNMENT
    /\ pending[h] # NoJob
    /\ Cardinality(running) < MaxRunning
    /\ try_job(h, pending[h])
    /\ UNCHANGED <<queueVars, connVars, handler_abilities, abilityVars, pc>>

\* The callbacks still in progress once r, the innermost, has ended with an
\* exception that left on_job_execute: the exception is raised by the poll
\* the enclosing callback made, and that callback handles it or lets it out
\* (worker.py 89-91: its own invocation then ends by raising, as fail's does)
Unwind(r, lets_out) ==
    {IF s.depth = r.depth - 1 /\ lets_out THEN [s EXCEPT !.callback = "fail"] ELSE s :
         s \in running \ {r}}

\* The callback of r ends; r is the innermost callback in progress.
\* on_job_execute (worker.py 89-93) reports its outcome; then the handler
\* releases the Job Lock (set_job_lock, worker.py 103-120) and requests more
\* work.  A KeyError raised by the report leaves on_job_execute, the handler
\* and the poll that dispatched the job: at depth 1 it ends work().
callback_finished(r) ==
    /\ pc = "polling"
    /\ r \in running
    /\ r.depth = Cardinality(running)
    /\ LET done == on_job_execute(r.job, r.callback)
           release == set_job_lock(command_handler_holding_job_lock, r.handler, FALSE)
       IN IF done.raised # NoRaise
          THEN /\ pc' = IF r.depth = 1 THEN "raised" ELSE pc
               /\ \E lets_out \in BOOLEAN : running' = Unwind(r, lets_out)
               /\ last' = Call("on_job_execute", done.raised,
                               done.ret, done.sent)
               /\ UNCHANGED <<handler_state, command_handler_holding_job_lock>>
          ELSE /\ command_handler_holding_job_lock' = release.holder
               /\ handler_state' = RequestWork(r.handler)
               /\ running' = running \ {r}
               /\ last' = Call("on_job_execute", done.raised, done.ret,
                               IF r.handler \in LiveHandlers
                               THEN done.sent \o <<Command("GRAB_JOB", r.job.conn, NoHandle, NoData)>>
                               ELSE done.sent)
               /\ pc' = pc
    /\ UNCHANGED <<queueVars, connVars, handler_abilities, pending, abilityVars>>

\* ------------------------------------------------------------- error hook
\* handle_error without the release of lines 185-186
release_on_error_skipped(current_handler) ==
    command_handler_holding_job_lock

\* worker.py 184-186: the lock owner once the failed connection's handler,
\* if it has one, has been made to release the lock
release_on_error(current_handler) ==
    IF current_handler # NoHandler
    THEN set_job_lock(command_handler_holding_job_lock, current_handler, FALSE).holder
    ELSE command_handler_holding_job_lock

\* worker.py 183-188.  The base handle_error (4.3, error isolation) closes
\* the connection and discards its handler from both maps.
handle_error(current_connection) ==
    /\ pc = "polling"
    /\ connected[current_connection]
    /\ LET current_handler == connection_to_handler_map[current_connection]
           holder == release_on_error(current_handler)
       IN /\ command_handler_holding_job_lock' = AsDiscarded(holder, current_handler)
          /\ running' = {[r EXCEPT !.handler = AsDiscarded(r.handler, current_handler)] :
                             r \in running}
          /\ connected' = [connected EXCEPT ![current_connection] = FALSE]
          /\ connection_to_handler_map' =
                 [connection_to_handler_map EXCEPT ![current_connection] = NoHandler]
          /\ handler_to_connection_map' =
                 [h \in AllHandlers |-> IF h = current_handler THEN NoConn
                                        ELSE handler_to_connection_map[h]]
          /\ handler_state' =
                 [h \in Handlers |-> IF h = current_handler THEN NO_HANDLER
                                     ELSE handler_state[h]]
          /\ handler_abilities' =
                 [h \in Handlers |-> IF h = current_handler THEN {}
                                     ELSE handler_abilities[h]]
          /\ pending' =
                 [h \in Handlers |-> IF h = current_handler THEN NoJob
                                     ELSE pending[h]]
          /\ last' = Call("handle_error", NoRaise,
                          IF holder # command_handler_holding_job_lock
                          THEN "released" ELSE "None", << >>)
    /\ UNCHANGED <<queueVars, abilityVars, pc>>

\* ------------------------------------------------------ job reporting calls
ReportKinds == {"status", "complete", "failure", "exception", "data", "warning"}

\* worker.py 129-157: the reporting call of the given kind
send_job(kind, current_job, data) ==
    CASE kind = "status" -> send_job_status(current_job)
      [] kind = "complete" -> send_job_complete(current_job, data)
      [] kind = "failure" -> send_job_failure(current_job)
      [] kind = "exception" -> send_job_exception(current_job, data)
      [] kind = "data" -> send_job_data(current_job, data)
      [] kind = "warning" -> send_job_warning(current_job, data)

\* A reporting call made against a job while its callback has not ended
\* (the job's connection may have been closed in the meantime)
report_call(kind, current_job) ==
    /\ \E r \in running : r.job = current_job
    /\ LET r == send_job(kind, current_job, current_job.data)
       IN last' = Call("send_job_" \o kind, r.raised, "None", r.sent)
    /\ UNCHANGED <<queueVars, connVars, handlerVars, abilityVars,
                   command_handler_holding_job_lock, running, pc>>

\* ------------------------------------------------------------ specification
\* The steps of the worker and its handlers
NextWorker ==
    \/ \E task \in Tasks, callback_function \in Callbacks : register_task(task, callback_function)
    \/ \E task \in Tasks : unregister_task(task)
    \/ work
    \/ get_worker_connections
    \/ poll_continue
    \/ poll_stopped
    \/ \E h \in Handlers : recv_no_job(h)
    \/ \E h \in Handlers : recv_noop(h)
    \/ \E h \in Handlers, job_handle \in Handles, task \in Tasks, data \in Data :
           recv_job_assign_uniq(h, job_handle, task, data)
    \/ \E h \in Handlers : retry_job_assign(h)
    \/ \E r \in running : callback_finished(r)
    \/ \E c \in Conns : handle_error(c)

Next ==
    \/ NextWorker
    \/ \E kind \in ReportKinds, current_job \in Jobs : report_call(kind, current_job)

Spec == Init /\ [][Next]_vars

TypeOK ==
    /\ connected \in [Conns -> BOOLEAN]
    /\ pc \in {"not_started", "get_connections", "polling", "returned", "raised"}
    /\ running \subseteq [handler : AllHandlers, job : Jobs, callback : Callbacks,
                          depth : 1..MaxRunning]
    /\ {r.depth : r \in running} = 1..Cardinality(running)
    /\ pending \in [Handlers -> Jobs \cup {NoJob}]
    /\ command_handler_holding_job_lock \in AllHandlers \cup {NoHandler}
    /\ handler_to_connection_map \in [AllHandlers -> Conns \cup {NoConn}]
    /\ connection_to_handler_map \in [Conns -> Handlers \cup {NoHandler}]
    /\ \A c \in Conns : outbox[c] = << >> /\ wire[c] = << >>

\* ------------------------------------------- the job lock called directly
\* worker.py 103-120: set_job_lock is called for command_handler, whatever
\* handler object that is and whatever it is doing
set_job_lock_call(command_handler, lock) ==
    /\ LET r == set_job_lock(command_handler_holding_job_lock, command_handler, lock)
       IN /\ command_handler_holding_job_lock' = r.holder
          /\ last' = Call(IF lock THEN "set_job_lock(lock=True)" ELSE "set_job_lock(lock=False)",
                          NoRaise, IF r.ret THEN "True" ELSE "False", << >>)
    /\ UNCHANGED <<queueVars, connVars, handlerVars, abilityVars, running, pc>>

\* The calls of set_job_lock among the steps that register and discard
\* handlers, the handlers awaiting assignment or sleeping
NextLock ==
    \/ work
    \/ get_worker_connections
    \/ poll_continue
    \/ \E h \in Handlers : recv_no_job(h)
    \/ \E h \in Handlers : recv_noop(h)
    \/ \E c \in Conns : handle_error(c)
    \/ \E command_handler \in AllHandlers, lock \in BOOLEAN : set_job_lock_call(command_handler, lock)

SpecLock == Init /\ [][NextLock]_vars

\* ----------------------------------------------------------------- shutdown
NameError == "NameError"

\* worker.py 179-181: the lock is cleared; then the argument of the base
\* shutdown is evaluated, current_connection, a name bound nowhere in
\* shutdown() or the module: NameError, raised to the caller before the base
\* shutdown is entered
shutdown ==
    /\ command_handler_holding_job_lock' = NoHandler
    /\ last' = Call("shutdown", NameError, "None", << >>)
    /\ UNCHANGED <<queueVars, connVars, handlerVars, abilityVars, running, pc>>

NextShutdown ==
    \/ Next
    \/ shutdown

SpecShutdown == Init /\ [][NextShutdown]_vars

\* ------------------------------------------------------------ fair scheduling
\* A callback in progress ends: the innermost one is not kept running for
\* ever.  The reporting calls a callback makes meanwhile change nothing but
\* the record of the last call and are left out.
SpecFair ==
    Init /\ [][NextWorker]_vars /\ WF_vars(\E r \in running : callback_finished(r))

\* ------------------------------------------- the outbound queues (4.2, 5)
\* The reporting calls whose commands are followed through the queues: the
\* exception report, a failure report of its own and an unrelated report
QueuedKinds == {"exception", "failure", "data"}

Sent == [c \in Conns |-> Len(wire[c]) + Len(outbox[c])]

RECURSIVE SumOver(_, _)
SumOver(f, S) ==
    IF S = {} THEN 0
    ELSE LET c == CHOOSE x \in S : TRUE IN f[c] + SumOver(f, S \ {c})

\* enqueueCommand for each command of cmds, in order, on the command's
\* connection
RECURSIVE Enqueue(_, _)
Enqueue(queues, cmds) ==
    IF cmds = << >> THEN queues
    ELSE Enqueue([queues EXCEPT ![Head(cmds).conn] = Append(@, Head(cmds))], Tail(cmds))

\* worker.py 129-157: a reporting call; its handler enqueues the commands
\* on the job's connection
enqueue_report(kind, current_job) ==
    /\ LET r == send_job(kind, current_job, current_job.data)
       IN /\ SumOver(Sent, Conns) + Len(r.sent) <= MaxSent
          /\ outbox' = Enqueue(outbox, r.sent)
          /\ last' = Call("send_job_" \o kind, r.raised, "None", r.sent)
    /\ UNCHANGED <<wire, connVars, handlerVars, abilityVars,
                   command_handler_holding_job_lock, running, pc>>

\* flushPending: the transport accepts the first n commands of the queue;
\* the rest stays for the next flush
flush_pending(c) ==
    /\ connected[c]
    /\ outbox[c] # << >>
    /\ \E n \in 1..Len(outbox[c]) :
         /\ wire' = [wire EXCEPT ![c] = @ \o SubSeq(outbox[c], 1, n)]
         /\ outbox' = [outbox EXCEPT ![c] = SubSeq(@, n + 1, Len(@))]
         /\ last' = Call("flush_pending", NoRaise, "None", SubSeq(outbox[c], 1, n))
    /\ UNCHANGED <<connVars, handlerVars, abilityVars,
                   command_handler_holding_job_lock, running, pc>>

\* The worker polling, the addresses of S connected, nothing enqueued yet
InitFlush ==
    \E S \in SUBSET Conns :
        /\ connected = [c \in Conns |-> c \in S]
        /\ connection_to_handler_map = [c \in Conns |-> IF c \in S THEN NewHandler(c) ELSE NoHandler]
        /\ handler_to_connection_map =
               [h \in AllHandlers |-> IF \E c \in S : NewHandler(c) = h
                                      THEN CHOOSE c \in S : NewHandler(c) = h
                                      ELSE NoConn]
        /\ handler_state = [h \in Handlers |-> IF \E c \in S : NewHandler(c) = h
                                               THEN AWAITING_ASSIGNMENT ELSE NO_HANDLER]
        /\ handler_abilities = [h \in Handlers |-> {}]
        /\ pending = [h \in Handlers |-> NoJob]
        /\ worker_abilities = [t \in Tasks |-> Unregistered]
        /\ handler_initial_state = update_initial_state([t \in Tasks |-> Unregistered])
        /\ command_handler_holding_job_lock = NoHandler
        /\ running = {}
        /\ pc = "polling"
        /\ last = Call("get_worker_connections", NoRaise, "None", << >>)
        /\ outbox = [c \in Conns |-> << >>]
        /\ wire = [c \in Conns |-> << >>]

NextFlush ==
    \/ \E kind \in QueuedKinds, current_job \in Jobs : enqueue_report(kind, current_job)
    \/ \E c \in Conns : flush_pending(c)

SpecFlush == InitFlush /\ [][NextFlush]_vars

\* ------------------------------------------------------------------ claims
Executing == {h \in LiveHandlers : handler_state[h] = EXECUTING}

\* C1: at most one live handler is EXECUTING, an EXECUTING handler is the
\* owner of the Job Lock, and every live handler that is not the owner is in
\* AWAITING_ASSIGNMENT or SLEEPING.
C1_OneExecuting ==
    /\ Cardinality(Executing) <= 1
    /\ \A h \in Executing : check_job_lock(h)
    /\ \A h \in LiveHandlers :
           ~check_job_lock(h) => handler_state[h] \in {AWAITING_ASSIGNMENT, SLEEPING}

\* A job was assigned to one handler while another was EXECUTING, and was
\* refused the lock.
C1_Witness ==
    /\ last.op = "recv_job_assign_uniq"
    /\ last.ret = "contended"
    /\ Executing # {}
    /\ \E h \in LiveHandlers : handler_state[h] = AWAITING_ASSIGNMENT

\* The lock is free and every live handler awaiting assignment would be
\* given it by its next acquire.
LockFreeFor(hs) ==
    /\ command_handler_holding_job_lock = NoHandler
    /\ \A h \in hs :
           handler_state[h] = AWAITING_ASSIGNMENT =>
               set_job_lock(command_handler_holding_job_lock, h, TRUE)
                   = [ret |-> TRUE, holder |-> h]

\* C2: handle_error on the connection of the lock owner leaves the lock
\* unowned and open to the handler of any other live connection; a job
\* assigned while the lock is unowned acquires it and is executed; and the
\* lock is never owned by a handler whose connection is not open.
C2_ErrorReleasesLock ==
    /\ [][\A c \in Conns :
            (handle_error(c) /\ connection_to_handler_map[c] # NoHandler
                /\ command_handler_holding_job_lock = connection_to_handler_map[c])
            => LockFreeFor(LiveHandlers)']_vars
    /\ [][\A h \in Handlers, job_handle \in Handles, task \in Tasks, data \in Data :
            (recv_job_assign_uniq(h, job_handle, task, data)
                /\ command_handler_holding_job_lock = NoHandler)
            => \/ command_handler_holding_job_lock' = h /\ handler_state'[h] = EXECUTING
               \/ last'.op = "on_job_execute_no_callback"]_vars
    /\ [](command_handler_holding_job_lock # NoHandler =>
            /\ command_handler_holding_job_lock \in LiveHandlers
            /\ connected[handler_to_connection_map[command_handler_holding_job_lock]])

\* The connection of the EXECUTING handler was torn down while its callback
\* ran, and a job assigned afterwards on another connection is executing.
C2_Witness ==
    /\ last.op = "recv_job_assign_uniq"
    /\ last.ret = "executing"
    /\ \E r \in running : r.handler = Discarded
    /\ \E h \in Executing : check_job_lock(h)

Terminal(sent, current_job) ==
    {i \in 1..Len(sent) : /\ sent[i].cmd \in {"WORK_COMPLETE", "WORK_FAIL"}
                          /\ sent[i].handle = current_job.handle
                          /\ sent[i].conn = current_job.conn}

\* What on_job_execute must have sent for a job whose callback did out
ReportedOnce(sent, current_job, out) ==
    /\ Cardinality(Terminal(sent, current_job)) = 1
    /\ \A i \in Terminal(sent, current_job) :
           IF out.kind = "return"
           THEN sent[i].cmd = "WORK_COMPLETE" /\ sent[i].data = out.value
           ELSE sent[i].cmd = "WORK_FAIL"
    /\ \A i \in 1..Len(sent) : sent[i].cmd \in {"WORK_COMPLETE", "WORK_FAIL", "GRAB_JOB"}

\* C3: a job executed on an open connection gets exactly one terminal
\* report for its handle: work-complete with the callback's return value
\* when the callback returns, work-fail and no work-complete when it raises.
C3_OneTerminalReport ==
    [][\A r \in running :
         (callback_finished(r) /\ get_handler_for_job(r.job) # NoHandler)
         => ReportedOnce(last'.sent, r.job, Invoke(r.callback, r.job))]_vars

\* A callback returned "tea" and work-complete carrying "tea" was sent.
C3_Witness ==
    /\ last.op = "on_job_execute"
    /\ last.ret = "True"
    /\ \E i \in 1..Len(last.sent) :
           last.sent[i].cmd = "WORK_COMPLETE" /\ last.sent[i].data = "tea"

\* C4: when the callback of an EXECUTING handler raises, work-fail is sent
\* for the job and the lock is unowned at once: the next acquire of any
\* other live handler awaiting assignment succeeds.
C4_RaiseFreesLock ==
    [][\A r \in running :
         (callback_finished(r) /\ r.handler \in Executing
             /\ Invoke(r.callback, r.job).kind = "raise")
         => /\ \E i \in 1..Len(last'.sent) :
                   /\ last'.sent[i].cmd = "WORK_FAIL"
                   /\ last'.sent[i].handle = r.job.handle
            /\ LockFreeFor(LiveHandlers \ {r.handler})']_vars

\* A raising callback has just ended with work-fail sent, the lock is free
\* and another connection's handler awaits assignment.
C4_Witness ==
    /\ last.op = "on_job_execute"
    /\ last.ret = "False"
    /\ \E i \in 1..Len(last.sent) : last.sent[i].cmd = "WORK_FAIL"
    /\ command_handler_holding_job_lock = NoHandler
    /\ Cardinality({h \in LiveHandlers : handler_state[h] = AWAITING_ASSIGNMENT}) >= 2

\* C5: whenever a callback raises, on_job_execute returns False without
\* raising and the work loop keeps polling.
C5_RaiseNeverEscapes ==
    [][\A r \in running :
         (callback_finished(r) /\ Invoke(r.callback, r.job).kind = "raise")
         => /\ last'.raised = NoRaise
            /\ last'.ret = "False"
            /\ pc' = "polling"]_vars

\* C6: a reporting call against a job whose connection has been closed
\* raises nothing, sends nothing and changes neither the lock nor any
\* handler.
C6_StaleReportTolerated ==
    [][\A kind \in ReportKinds, current_job \in Jobs :
         (report_call(kind, current_job) /\ ~connected[current_job.conn])
         => /\ last'.raised = NoRaise
            /\ last'.sent = << >>
            /\ command_handler_holding_job_lock' = command_handler_holding_job_lock
            /\ handler_state' = handler_state]_vars

\* C7: once work() has returned, no connection is open.
C7_AllClosedOnReturn ==
    pc = "returned" => \A c \in Conns : ~connected[c]

\* C8: the ability list held as handler initial state is the key set of the
\* ability table, and a handler built by a connect is given exactly that set.
C8_InitialStateIsNetSet ==
    /\ [](handler_initial_state.abilities = Keys(worker_abilities))
    /\ [][get_worker_connections =>
            \A c \in Conns :
                (~connected[c] /\ connected'[c]) =>
                    handler_abilities'[connection_to_handler_map'[c]] = Keys(worker_abilities)]_vars

\* A handler connected after registrations and an unregistration that left
\* one task of the two registered.
C8_Witness ==
    /\ last.op = "get_worker_connections"
    /\ Cardinality(Keys(worker_abilities)) = 1
    /\ \E h \in LiveHandlers : handler_abilities[h] = Keys(worker_abilities)

\* C9: register_task and unregister_task give every live handler the key
\* set of the ability table as it is after the call, and change no handler's
\* protocol state and not the lock owner.
C9_BroadcastToAll ==
    [][(\/ \E task \in Tasks, callback_function \in Callbacks :
              register_task(task, callback_function)
        \/ \E task \in Tasks : unregister_task(task))
       => /\ \A h \in LiveHandlers : handler_abilities'[h] = Keys(worker_abilities')
          /\ LiveHandlers' = LiveHandlers
          /\ handler_state' = handler_state
          /\ command_handler_holding_job_lock' = command_handler_holding_job_lock]_vars

\* A task was registered while one handler was EXECUTING and another
\* SLEEPING, and both hold the new set.
C9_Witness ==
    /\ last.op = "register_task"
    /\ Keys(worker_abilities) = Tasks
    /\ \E h \in Executing : handler_abilities[h] = Tasks
    /\ \E h \in LiveHandlers : handler_state[h] = SLEEPING /\ handler_abilities[h] = Tasks

\* C10: handle_error on one connection leaves every other connection open
\* or closed as it was, every other handler registered and in its protocol
\* state, and the lock with its owner when the owner is another
\* connection's handler.
C10_ErrorIsolated ==
    [][\A c \in Conns :
         handle_error(c)
         => /\ ~connected'[c]
            /\ connection_to_handler_map'[c] = NoHandler
            /\ \A d \in Conns \ {c} :
                   /\ connected'[d] = connected[d]
                   /\ connection_to_handler_map'[d] = connection_to_handler_map[d]
            /\ \A h \in AllHandlers \ {connection_to_handler_map[c]} :
                   handler_to_connection_map'[h] = handler_to_connection_map[h]
            /\ \A h \in Handlers \ {connection_to_handler_map[c]} :
                   /\ handler_state'[h] = handler_state[h]
                   /\ handler_abilities'[h] = handler_abilities[h]
            /\ command_handler_holding_job_lock \notin {NoHandler, connection_to_handler_map[c]}
                   => command_handler_holding_job_lock' = command_handler_holding_job_lock]_vars

\* A connection failed while another connection's handler was EXECUTING,
\* and that handler still owns the lock.
C10_Witness ==
    /\ last.op = "handle_error"
    /\ last.ret = "None"
    /\ \E h \in Executing : check_job_lock(h)

\* C11: a failure on one connection closes that connection alone and leaves
\* work() polling; every address not connected can be connected by each
\* later get_worker_connections; and work() is never ended by an exception.
C11_NeverStopsOnFailure ==
    /\ [][\A c \in Conns :
            handle_error(c) => /\ ~connected'[c]
                               /\ \A d \in Conns \ {c} : connected'[d] = connected[d]
                               /\ pc' = "polling"]_vars
    /\ [](pc = "get_connections" =>
            \A c \in Conns :
                ~connected[c] => ENABLED (get_worker_connections /\ connected'[c]))
    /\ [](pc # "raised")

\* What has been enqueued on c, in the order the transport is given it
Stream(c) == wire[c] \o outbox[c]

\* C12: send_job_exception on an open connection enqueues work-exception
\* and then work-fail for the job, at the end of the queue of the job's
\* connection and on no other; a flush writes the head of the queue and
\* keeps the rest in order; so on every connection each work-exception is
\* followed at once by the work-fail of the same job, queued or written.
C12_ExceptionThenFail ==
    /\ [][\A current_job \in Jobs :
            (enqueue_report("exception", current_job) /\ connected[current_job.conn])
            => /\ last'.raised = NoRaise
               /\ outbox'[current_job.conn] = outbox[current_job.conn] \o
                      <<Command("WORK_EXCEPTION", current_job.conn, current_job.handle, current_job.data),
                        Command("WORK_FAIL", current_job.conn, current_job.handle, NoData)>>
               /\ \A d \in Conns \ {current_job.conn} : outbox'[d] = outbox[d]]_vars
    /\ [][\A c \in Conns :
            flush_pending(c) => /\ Stream(c)' = Stream(c)
                                /\ Len(wire'[c]) > Len(wire[c])
                                /\ \A d \in Conns \ {c} : wire'[d] = wire[d] /\ outbox'[d] = outbox[d]]_vars
    /\ [](\A c \in Conns : \A i \in 1..Len(Stream(c)) :
            Stream(c)[i].cmd = "WORK_EXCEPTION"
            => /\ i < Len(Stream(c))
               /\ Stream(c)[i + 1].cmd = "WORK_FAIL"
               /\ Stream(c)[i + 1].handle = Stream(c)[i].handle
               /\ Stream(c)[i].conn = c /\ Stream(c)[i + 1].conn = c)

\* A partial flush has written a work-exception behind another report and
\* left its work-fail at the head of the queue.
C12_Witness ==
    \E c \in Conns :
        /\ last.op = "flush_pending"
        /\ Len(wire[c]) >= 2
        /\ wire[c][Len(wire[c])].cmd = "WORK_EXCEPTION"
        /\ outbox[c] # << >>
        /\ Head(outbox[c]).cmd = "WORK_FAIL"

\* The job h tried to start in this step, and what was sent for it
NoCallbackOutcome(h, current_job) ==
    /\ running' = running
    /\ last'.raised = NoRaise
    /\ last'.ret = "False"
    /\ \E i \in 1..Len(last'.sent) :
           /\ last'.sent[i].cmd = "WORK_FAIL"
           /\ last'.sent[i].handle = current_job.handle
           /\ last'.sent[i].conn = current_job.conn
    /\ \A i \in 1..Len(last'.sent) : last'.sent[i].cmd # "WORK_COMPLETE"
    /\ last' # last

\* C13: a job dispatched when its task has no entry in the ability table,
\* at its assignment or at a later retry after the task was unregistered,
\* starts no callback, sends work-fail for the job and no work-complete, and
\* on_job_execute answers False: the step is told apart from doing nothing.
C13_UnregisteredTaskFails ==
    /\ [][\A h \in Handlers, job_handle \in Handles, task \in Tasks, data \in Data :
            (recv_job_assign_uniq(h, job_handle, task, data)
                /\ command_handler_holding_job_lock = NoHandler
                /\ worker_abilities[task] = Unregistered)
            => NoCallbackOutcome(h, create_job(h, job_handle, task, data))]_vars
    /\ [][\A h \in Handlers :
            (retry_job_assign(h)
                /\ command_handler_holding_job_lock = NoHandler
                /\ worker_abilities[pending[h].task] = Unregistered)
            => NoCallbackOutcome(h, pending[h])]_vars

\* A job for a task with no callback was failed while another job's
\* callback was in progress.
C13_Witness ==
    /\ last.op = "on_job_execute_no_callback"
    /\ last.ret = "False"
    /\ \E i \in 1..Len(last.sent) : last.sent[i].cmd = "WORK_FAIL"
    /\ running # {}

\* C14: register_task of a registered name leaves the key set and every
\* live handler's ability set as they were and stores the callback given;
\* the callback a dispatch starts (the callback in progress one deeper than
\* all before) is the one stored last; register_task of a
\* (name, callback) already in the table changes nothing of the table;
\* unregister_task of a name not in the table changes nothing of it; both
\* return the task name.
C14_RegisterIdempotentReplace ==
    /\ [][\A task \in Tasks, callback_function \in Callbacks :
            register_task(task, callback_function)
            => /\ Keys(worker_abilities') = Keys(worker_abilities) \cup {task}
               /\ worker_abilities'[task] = callback_function
               /\ \A t \in Tasks \ {task} : worker_abilities'[t] = worker_abilities[t]
               /\ task \in Keys(worker_abilities)
                      => /\ handler_initial_state' = handler_initial_state
                         /\ \A h \in LiveHandlers : handler_abilities'[h] = handler_abilities[h]
               /\ worker_abilities[task] = callback_function
                      => worker_abilities' = worker_abilities
               /\ last'.raised = NoRaise
               /\ last'.ret = task]_vars
    /\ [][\A task \in Tasks :
            unregister_task(task)
            => /\ task \notin Keys(worker_abilities)
                      => /\ worker_abilities' = worker_abilities
                         /\ handler_initial_state' = handler_initial_state
                         /\ \A h \in LiveHandlers : handler_abilities'[h] = handler_abilities[h]
               /\ last'.raised = NoRaise
               /\ last'.ret = task]_vars
    /\ [][\A r \in running' \ running :
            r.depth > Cardinality(running) => r.callback = worker_abilities[r.job.task]]_vars

\* The task "echo" was registered again, with fail in the place of the
\* callback its job in progress was started with, and a job dispatched
\* afterwards was started with fail.
C14_Witness ==
    /\ worker_abilities["echo"] = "fail"
    /\ \E r \in running : r.job.task = "echo" /\ r.callback = "echo" /\ r.depth = 1
    /\ \E r \in running : r.job.task = "echo" /\ r.callback = "fail" /\ r.depth = 2
    /\ last.op = "recv_job_assign_uniq"

\* C15: a job assigned to a handler while another handler owns the lock is
\* refused the lock without an error, the handler is not EXECUTING and
\* keeps the job pending; a retry made while the lock is unowned dispatches
\* the job; and a pending job is never left behind by a work() that an
\* exception has ended.
C15_ContentionRetried ==
    /\ [][\A h \in Handlers, job_handle \in Handles, task \in Tasks, data \in Data :
            (recv_job_assign_uniq(h, job_handle, task, data)
                /\ command_handler_holding_job_lock \notin {NoHandler, h})
            => /\ last'.raised = NoRaise
               /\ last'.ret = "contended"
               /\ handler_state'[h] = AWAITING_ASSIGNMENT
               /\ pending'[h] = create_job(h, job_handle, task, data)
               /\ command_handler_holding_job_lock' = command_handler_holding_job_lock
               /\ running' = running]_vars
    /\ [][\A h \in Handlers :
            (retry_job_assign(h) /\ command_handler_holding_job_lock = NoHandler)
            => /\ pending'[h] = NoJob
               /\ \/ \E r \in running' \ running : r.handler = h /\ r.job = pending[h]
                  \/ last'.op = "on_job_execute_no_callback"]_vars
    /\ [](\A h \in LiveHandlers : pending[h] # NoJob => pc # "raised")

\* The lock owner's callback is the innermost one in progress
OwnerCanEnd ==
    \E r \in running : /\ r.handler = command_handler_holding_job_lock
                       /\ ENABLED callback_finished(r)

\* C16: a lock that is owned is released in the end, a callback in progress
\* being one that ends: the end of the owner's callback, by return or by
\* raise, releases it, and so does handle_error on the owner's connection;
\* while it is owned the owner's callback can end.
C16_LockReleased ==
    /\ (command_handler_holding_job_lock # NoHandler)
           ~> (command_handler_holding_job_lock = NoHandler)
    /\ [](command_handler_holding_job_lock # NoHandler => OwnerCanEnd)
    /\ [][\A r \in running :
            (callback_finished(r) /\ check_job_lock(r.handler))
            => command_handler_holding_job_lock' = NoHandler]_vars
    /\ [][\A c \in Conns :
            (handle_error(c) /\ connection_to_handler_map[c] # NoHandler
                /\ check_job_lock(connection_to_handler_map[c]))
            => command_handler_holding_job_lock' = NoHandler]_vars

\* The teardown of the owner's connection has released the lock while the
\* owner's callback is still in progress.
C16_Witness ==
    /\ last.op = "handle_error"
    /\ last.ret = "released"
    /\ command_handler_holding_job_lock = NoHandler
    /\ \E r \in running : r.handler = Discarded /\ r.depth = Cardinality(running)

\* C17: when the callback of an EXECUTING handler ends, by return or by
\* raise, the outcome is reported, then more work is requested on the same
\* connection, the lock is unowned and the handler is in
\* AWAITING_ASSIGNMENT; no-job-available takes AWAITING_ASSIGNMENT to
\* SLEEPING and a wake-notification takes SLEEPING to AWAITING_ASSIGNMENT;
\* a live handler is in one of these three states, and while work() polls
\* it awaits a job, can be woken, or has a callback that can end.
C17_NeverIdle ==
    /\ [][\A r \in running :
            (callback_finished(r) /\ r.handler \in Executing)
            => /\ last'.raised = NoRaise
               /\ ReportedOnce(last'.sent, r.job, Invoke(r.callback, r.job))
               /\ Len(last'.sent) = 2
               /\ last'.sent[2] = Command("GRAB_JOB", handler_to_connection_map[r.handler], NoHandle, NoData)
               /\ command_handler_holding_job_lock' = NoHandler
               /\ handler_state'[r.handler] = AWAITING_ASSIGNMENT]_vars
    /\ [][\A h \in Handlers : recv_no_job(h) => handler_state'[h] = SLEEPING]_vars
    /\ [][\A h \in Handlers : recv_noop(h) => handler_state'[h] = AWAITING_ASSIGNMENT]_vars
    /\ [](\A h \in LiveHandlers :
            /\ handler_state[h] \in {AWAITING_ASSIGNMENT, SLEEPING, EXECUTING}
            /\ pc = "polling" =>
                  \/ handler_state[h] = AWAITING_ASSIGNMENT
                  \/ handler_state[h] = SLEEPING /\ ENABLED recv_noop(h)
                  \/ /\ handler_state[h] = EXECUTING
                     /\ \E r \in running : r.handler = h /\ ENABLED callback_finished(r))

\* A callback returned on its open connection: work-complete and then a
\* request for more work were sent, the lock is unowned and the handler
\* awaits assignment.
C17_Witness ==
    /\ last.op = "on_job_execute"
    /\ last.ret = "True"
    /\ Len(last.sent) = 2
    /\ last.sent[2].cmd = "GRAB_JOB"
    /\ command_handler_holding_job_lock = NoHandler
    /\ connection_to_handler_map[last.sent[2].conn] # NoHandler
    /\ handler_state[connection_to_handler_map[last.sent[2].conn]] = AWAITING_ASSIGNMENT

\* C18: the lock owner is none or a handler registered in the
\* handler-to-connection map; a call of set_job_lock makes no handler the
\* owner that is not registered; and a handler that leaves the map is not
\* the owner afterwards.
C18_OwnerIsLive ==
    /\ [](check_job_lock(NoHandler) \/ \E h \in LiveHandlers : check_job_lock(h))
    /\ [][\A command_handler \in AllHandlers, lock \in BOOLEAN :
            (set_job_lock_call(command_handler, lock) /\ command_handler \notin LiveHandlers)
            => /\ last'.ret = "False"
               /\ command_handler_holding_job_lock' = command_handler_holding_job_lock]_vars
    /\ [][\A h \in LiveHandlers :
            h \notin LiveHandlers' => command_handler_holding_job_lock' \notin {h, Discarded}]_vars

\* A handler that a connection error has discarded has just asked for the
\* lock, unowned at the time, and was refused.
C18_Witness ==
    /\ last.op = "set_job_lock(lock=True)"
    /\ last.ret = "False"
    /\ command_handler_holding_job_lock = NoHandler

\* C19: set_job_lock answers True exactly for an acquire by a registered
\* handler while the lock is unowned, after which the caller is the owner,
\* and for a release by the owner, after which the lock is unowned; every
\* other call answers False and leaves the owner as it was.
C19_LockAnswer ==
    [][\A command_handler \in AllHandlers, lock \in BOOLEAN :
         set_job_lock_call(command_handler, lock)
         => LET changes ==
                    /\ command_handler \in LiveHandlers
                    /\ IF lock THEN check_job_lock(NoHandler)
                               ELSE check_job_lock(command_handler)
            IN IF changes
               THEN /\ last'.ret = "True"
                    /\ IF lock THEN check_job_lock(command_handler)'
                               ELSE check_job_lock(NoHandler)'
               ELSE /\ last'.ret = "False"
                    /\ command_handler_holding_job_lock' = command_handler_holding_job_lock]_vars

\* An acquire was refused while a live handler owns the lock and every
\* live handler is still awaiting assignment: the owner got the lock by a
\* call of its own.
C19_Witness ==
    /\ last.op = "set_job_lock(lock=True)"
    /\ last.ret = "False"
    /\ \E h \in LiveHandlers : check_job_lock(h)
    /\ Cardinality(LiveHandlers) = NumConns

\* C20: shutdown() raises nothing, leaves the lock unowned and leaves every
\* connection closed.
C20_ShutdownCompletes ==
    [][shutdown => /\ last'.raised = NoRaise
                   /\ command_handler_holding_job_lock' = NoHandler
                   /\ \A c \in Conns : ~connected'[c]]_vars

====
